---- MODULE Spec2Model ----
(***************************************************************************)
(* The sync engine of courriel (src/courriel/sync/engine.py), its Maildir  *)
(* store (src/courriel/storage/maildir.py) and its cursor file             *)
(* (src/courriel/sync/state.py), as a state machine.  One run of           *)
(* SyncEngine.sync is a sequence of steps, one per remote call or file     *)
(* system operation; the remote mailbox, the clock and process crashes     *)
(* are the environment.                                                    *)
(***************************************************************************)
EXTENDS Integers, Sequences, FiniteSets, TLC

\* ---------------------------------------------------------------- bounds
\* Runs a behaviour of SpecTwice makes, one after the other.
MaxRuns == 2
\* Processes a behaviour of SpecCrash sees killed.
MaxCrashes == 2
\* How often the scheduler may pass from one of two processes to the other.
MaxSwitches == 2
\* The longest labelIds list a message given to write_message carries.
MaxLabels == 3

\* ------------------------------------------------------- program constants
\* full_sync(max_messages: int = 100)
DefaultMaxMessages == 100

\* ------------------------------------------------------------ value sets
\* Python's None, for the optional strings of the code.
None == "None"
\* Remote message ids, most recent first.
RecentFirst == <<"B", "A">>
\* The labels a caller asks for, and the label lists it passes to sync().
SyncLabels == {"INBOX", "SENT"}
LabelLists == {<<"INBOX">>, <<"INBOX", "SENT">>}
\* historyId values the remote hands out: decimal strings, and one string
\* that int() rejects.
NumericIds == {"10", "20"}
HistoryIds == NumericIds \cup {"abc"}
\* What a response may carry as its historyId: one of them, or none.
AnsweredIds == HistoryIds \cup {None}
\* The labelIds of a message that sits read in the inbox.
InboxOnly == {<<"INBOX">>}
\* labelIds a fetched message carries.
LabelIdLists == {<<"INBOX">>, <<"SENT", "UNREAD">>}
\* max_messages values a caller passes.
MaxMessagesArgs == {1, DefaultMaxMessages}
\* since and days values a caller passes.
SinceArgs == {None, "2024-01-01"}
DaysArgs == {None, "30"}
\* What a failed remote call and a failed file operation raise.
FetchError == "Transient"
\* The statuses an HttpError of list_history carries.
HttpStatuses == {404, 500}
WriteError == "OSError"
\* What the except clauses around get_message and write_message catch.
MessageErrors == {FetchError, WriteError}
\* int(time.time()) and datetime.now() when nothing distinguishes two moments.
OneTime == {1}
TwoTimes == {1, 2}
\* The historyId of a mailbox nothing happens to.
OneId == {"10"}
\* What a process may find when it starts: all in order, no account in the
\* configuration, an account of another provider, no valid credentials, or a
\* storage root it cannot write to.
SetupStates ==
    {"ok", "no_account", "unsupported_provider", "not_authenticated", "unwritable_root"}
\* The label ids a message may carry: the system labels with a folder, the
\* labels get_primary_folder never takes for a folder, and two user labels.
GmailLabels ==
    {"INBOX", "SENT", "DRAFT", "TRASH", "SPAM",
     "UNREAD", "STARRED", "IMPORTANT", "CATEGORY_PERSONAL", "CATEGORY_SOCIAL",
     "CATEGORY_PROMOTIONS", "CATEGORY_UPDATES", "CATEGORY_FORUMS",
     "MyLabel", "AnotherLabel"}
\* The labelIds lists: up to MaxLabels labels, none of them twice.
LabelInputs ==
    {l \in UNION {[1..n -> GmailLabels] : n \in 0..MaxLabels} :
        \A i, j \in 1..Len(l) : l[i] = l[j] => i = j}

\* ------------------------------------------------------------- helpers
Min(a, b) == IF a < b THEN a ELSE b

Range(s) == {s[i] : i \in 1..Len(s)}

\* s[:n]
Take(s, n) == SubSeq(s, 1, Min(n, Len(s)))

MsgIds == Range(RecentFirst)

\* The ids one list_history response may report as added.
AddedSets == SUBSET MsgIds

\* Lists that hold every element of a set twice.
OrdersTwice(S) ==
    {s \in [1..2 * Cardinality(S) -> S] :
        \A x \in S : Cardinality({i \in 1..Len(s) : s[i] = x}) = 2}

\* All orders in which a list can hold the elements of a set.
Orders(S) ==
    {s \in [1..Cardinality(S) -> S] : \A i, j \in 1..Len(s) : i # j => s[i] # s[j]}

\* The messagesAdded records of one list_history response, in its order.
AddedLists == UNION {Orders(S) : S \in AddedSets}

\* The ids of seen, then those of changes not among them, in their order.
FirstSeen(seen, changes) ==
    LET IsNew(x) == \A i \in 1..Len(seen) : seen[i] # x
    IN  seen \o SelectSeq(changes, IsNew)

\* int(s): the number a decimal string denotes (ValueError elsewhere).
IsNumeric(s) == s \in NumericIds
int(s) ==
    CASE s = "10" -> 10
      [] s = "20" -> 20

\* ------------------------------------------------------ storage/maildir.py
LABEL_FOLDER_MAP_keys == {"INBOX", "SENT", "DRAFT", "TRASH", "SPAM"}
FOLDER_PRIORITY == <<"INBOX", "SENT", "DRAFT", "TRASH", "SPAM">>
virtual_labels ==
    {"UNREAD", "STARRED", "IMPORTANT", "CATEGORY_PERSONAL", "CATEGORY_SOCIAL",
     "CATEGORY_PROMOTIONS", "CATEGORY_UPDATES", "CATEGORY_FORUMS"}
hostname == "host"

\* A folder name is the list of its path components.
label_to_folder(label_id) ==
    CASE label_id = "INBOX" -> <<"INBOX">>
      [] label_id = "SENT" -> <<"Sent">>
      [] label_id = "DRAFT" -> <<"Drafts">>
      [] label_id = "TRASH" -> <<"Trash">>
      [] label_id = "SPAM" -> <<"Spam">>
      [] OTHER -> <<"Labels", label_id>>

\* A resolution that takes the folder of the first label of the list.
get_primary_folder_first_label(label_ids) ==
    IF label_ids = <<>> THEN <<"INBOX">> ELSE label_to_folder(label_ids[1])

get_primary_folder(label_ids) ==
    LET system == {i \in 1..Len(FOLDER_PRIORITY) : FOLDER_PRIORITY[i] \in Range(label_ids)}
        user == {i \in 1..Len(label_ids) :
                    /\ label_ids[i] \notin virtual_labels
                    /\ label_ids[i] \notin LABEL_FOLDER_MAP_keys}
    IN  IF system # {}
        THEN label_to_folder(FOLDER_PRIORITY[CHOOSE i \in system : \A j \in system : i <= j])
        ELSE IF user # {}
        THEN label_to_folder(label_ids[CHOOSE i \in user : \A j \in user : i <= j])
        ELSE <<"INBOX">>

\* A conversion that joins the letters in the order the code adds them.
labels_to_flags_unsorted(label_ids) ==
    (IF "UNREAD" \notin Range(label_ids) THEN <<"S">> ELSE <<>>)
    \o (IF "STARRED" \in Range(label_ids) THEN <<"F">> ELSE <<>>)
    \o (IF "DRAFT" \in Range(label_ids) THEN <<"D">> ELSE <<>>)
    \o (IF "TRASH" \in Range(label_ids) THEN <<"T">> ELSE <<>>)

\* The flag letters, in alphabetical order.
labels_to_flags(label_ids) ==
    LET flags == (IF "UNREAD" \notin Range(label_ids) THEN {"S"} ELSE {})
                 \cup (IF "STARRED" \in Range(label_ids) THEN {"F"} ELSE {})
                 \cup (IF "DRAFT" \in Range(label_ids) THEN {"D"} ELSE {})
                 \cup (IF "TRASH" \in Range(label_ids) THEN {"T"} ELSE {})
    IN  (IF "D" \in flags THEN <<"D">> ELSE <<>>)
        \o (IF "F" \in flags THEN <<"F">> ELSE <<>>)
        \o (IF "S" \in flags THEN <<"S">> ELSE <<>>)
        \o (IF "T" \in flags THEN <<"T">> ELSE <<>>)

\* <timestamp>.<message_id>.<hostname>:2,<flags>
generate_filename(message_id, flags, timestamp) ==
    [timestamp |-> timestamp, message_id |-> message_id, host |-> hostname, flags |-> flags]

\* A destination that is cur/ for every message.
dest_dir_always_cur(label_ids) == "cur"

\* The directory a message is renamed into.
dest_dir(label_ids) == IF "UNREAD" \in Range(label_ids) THEN "new" ELSE "cur"

\* A file of the store: its folder, its subdirectory (tmp, cur or new), its
\* name, and whether all its bytes were written.
File(folder, sub, name, complete) ==
    [folder |-> folder, sub |-> sub, name |-> name, complete |-> complete]

\* A lookup that takes a file under tmp/ for a stored message as well.
message_exists_any_dir(files, message_id) ==
    \E f \in files : f.name.message_id = message_id

\* A lookup that finds nothing.
message_exists_never(files, message_id) == FALSE

\* A scan that looks under cur/ only.
message_exists_in_cur(files, message_id) ==
    \E f \in files : f.name.message_id = message_id /\ f.sub = "cur"

\* A scan that looks under new/ only.
message_exists_in_new(files, message_id) ==
    \E f \in files : f.name.message_id = message_id /\ f.sub = "new"

\* rglob("*.<message_id>.*") restricted to cur/ and new/.
message_exists(files, message_id) ==
    \E f \in files : f.name.message_id = message_id /\ f.sub \in {"cur", "new"}

\* ------------------------------------------------------------ sync/state.py
\* The state file: absent, a JSON record, or bytes that json.loads rejects.
AbsentFile == [kind |-> "absent", history_id |-> None, last_sync |-> 0, synced_labels |-> <<>>]
\* The state file when write_text was cut short: bytes json.loads rejects.
CorruptFile == [kind |-> "corrupt", history_id |-> None, last_sync |-> 0, synced_labels |-> <<>>]
\* SyncState._state when nothing is loaded.
NoState == [kind |-> "none", history_id |-> None, last_sync |-> 0, synced_labels |-> <<>>]

\* A load that takes whatever bytes the file holds for a record.
load_unchecked(file) ==
    IF file.kind = "absent" THEN NoState
    ELSE [kind |-> "dict", history_id |-> file.history_id,
          last_sync |-> file.last_sync, synced_labels |-> file.synced_labels]

\* A load that finds no record whatever the file holds.
load_nothing(file) == NoState

load(file) ==
    IF file.kind = "json"
    THEN [kind |-> "dict", history_id |-> file.history_id,
          last_sync |-> file.last_sync, synced_labels |-> file.synced_labels]
    ELSE NoState

\* The record save() writes, and the _state it leaves in memory.
saved_file(history_id, synced_labels, now) ==
    [kind |-> "json", history_id |-> history_id, last_sync |-> now,
     synced_labels |-> synced_labels]

\* _state after get_history_id(): loaded from disk when nothing is cached.
cache_after_get(cache, file) == IF cache.kind = "none" THEN load(file) ELSE cache

get_history_id(cache, file) ==
    LET c == cache_after_get(cache, file)
    IN  IF c.kind = "none" THEN None ELSE c.history_id

\* ----------------------------------------------------------- sync/engine.py
SyncResult == [downloaded |-> 0, skipped |-> 0, errors |-> 0, error_details |-> <<>>]

\* "<message_id>: <error>"
ErrorDetail(message_id, error) == <<message_id, ": ", error>>

\* A recording that keeps the detail of the error and does not count it.
add_error_detail_only(r, message_id, error) ==
    [r EXCEPT !.error_details = Append(@, ErrorDetail(message_id, error))]

\* A recording that counts the error and keeps no detail of it.
add_error_count_only(r, message_id, error) == [r EXCEPT !.errors = @ + 1]

add_error(r, message_id, error) ==
    [r EXCEPT !.errors = @ + 1,
              !.error_details = Append(@, ErrorDetail(message_id, error))]

build_query(since, days) ==
    IF since # None THEN "after:since"
    ELSE IF days # None THEN "after:today-days"
    ELSE None

\* A selection that lets a stored cursor win over force_full.
use_incremental_unforced(history_id, force_full, q) ==
    history_id # None /\ q = None

use_incremental(history_id, force_full, q) ==
    history_id # None /\ ~force_full /\ q = None

\* ------------------------------------------------------------------ state
VARIABLES
    other,              \* the locals of a second process while it is not the one taking steps
    setup,              \* what the process finds: account, credentials, storage root
    remote_labels,      \* the remote mailbox: message id -> the labels it carries
    store,              \* the files under the Maildir base path
    state_file,         \* the account's sync-state file
    crashes,            \* processes killed so far
    pc,                 \* where the running process stands
    args,               \* the arguments of the sync() call being entered
    state_cache,        \* SyncState._state
    labels, max_messages, query,     \* parameters of full_sync / incremental_sync
    mode,               \* "full" or "incremental" while a run is under way
    label_idx,          \* position in labels
    message_ids,        \* full_sync: the ids listed for the current label
    message_list,       \* incremental_sync: list(new_message_ids)
    idx,                \* position in message_ids / message_list
    highest_history_id, \* full_sync
    start_history_id, new_message_ids, current_history_id,  \* incremental_sync
    message,            \* the fetched message, while it is written
    filename,           \* write_message: the name generated for it
    result,             \* the SyncResult of the run
    raised,             \* the exception sync() ended with, or None
    hist                \* what the run did so far (for stating properties)

vars == <<other, setup, remote_labels, store, state_file, crashes, pc, args, state_cache, labels,
          max_messages, query, mode, label_idx, message_ids, message_list, idx,
          highest_history_id, start_history_id, new_message_ids,
          current_history_id, message, filename, result, raised, hist>>

\* The variables that outlive a process: its environment and the files.
persistent == <<other, setup, remote_labels, store, state_file>>
\* The locals of full_sync and incremental_sync that hold the position.
position == <<label_idx, message_ids, message_list, idx, message, filename>>
\* The parameters of the mode under way.
params == <<mode, labels, max_messages, query>>
\* The locals of incremental_sync's listing loop.
incr_locals == <<start_history_id, new_message_ids, current_history_id>>

NoArgs == [labels |-> <<>>, max_messages |-> 0, since |-> None, days |-> None,
           force_full |-> FALSE]
NoMessage == [id |-> None, labelIds |-> <<>>]
NoFilename == generate_filename(None, <<>>, 0)
NoPrev == [selected |-> "none", fallback |-> FALSE, ended |-> "none",
           downloaded |-> 0, skipped |-> 0, errors |-> 0]
NoHist ==
    [cursor0 |-> AbsentFile,      \* the state file when the run started
     visible0 |-> {},             \* ids stored when the run started
     caller_max |-> 0,            \* max_messages as the caller gave it
     selected |-> "none",         \* the mode sync() selected
     first_call |-> "none",       \* the first remote call of the run
     fetched |-> <<>>,            \* ids passed to get_message, in order
     observed |-> {},             \* historyIds of fetched messages (full_sync)
     responses |-> {},            \* historyIds list_history returned
     shared |-> {},               \* ids more than one list_history reported
     saves |-> 0,                 \* calls of SyncState.save
     progress |-> <<>>,           \* calls of progress_callback, in order
     first_seen |-> <<>>,         \* added ids, in the order list_history gave them
     fallback |-> FALSE,          \* a 404 sent incremental_sync to full_sync
     run |-> 0,                   \* SpecTwice: the number of this run
     call |-> NoArgs,             \* SpecTwice: the arguments of this run
     prev |-> NoPrev]             \* SpecTwice: how the run before ended

\* The locals of a process that has not called sync().
IdleLocals ==
    [pc |-> "idle", args |-> NoArgs, state_cache |-> NoState, labels |-> <<>>,
     max_messages |-> 0, query |-> None, mode |-> "none", label_idx |-> 0,
     message_ids |-> <<>>, message_list |-> <<>>, idx |-> 0,
     highest_history_id |-> None, start_history_id |-> None, new_message_ids |-> {},
     current_history_id |-> None, message |-> NoMessage, filename |-> NoFilename,
     result |-> SyncResult, raised |-> None, hist |-> NoHist]

\* A second process that has not started; no step of one process was taken
\* while the other was in a run.
NoOther == [locals |-> IdleLocals, overlap |-> FALSE, switches |-> 0]

\* A new account: nothing stored, no cursor, any remote mailbox.
Init ==
    /\ setup = "ok"
    /\ other = NoOther
    /\ remote_labels \in [MsgIds -> SUBSET SyncLabels]
    /\ store = {}
    /\ state_file = AbsentFile
    /\ crashes = 0
    /\ pc = "idle"
    /\ args = NoArgs
    /\ state_cache = NoState
    /\ labels = <<>> /\ max_messages = 0 /\ query = None
    /\ mode = "none"
    /\ label_idx = 0
    /\ message_ids = <<>> /\ message_list = <<>> /\ idx = 0
    /\ highest_history_id = None
    /\ start_history_id = None /\ new_message_ids = {} /\ current_history_id = None
    /\ message = NoMessage
    /\ filename = NoFilename
    /\ result = SyncResult
    /\ raised = None
    /\ hist = NoHist

Stopped == pc \in {"idle", "done", "raised", "crashed"}

VisibleIds(files) == {m \in MsgIds : message_exists(files, m)}

\* ---------------------------------------------------------------- actions
\* The locals of a process that has not entered full_sync or incremental_sync.
ResetLocals ==
    /\ state_cache' = NoState
    /\ labels' = <<>> /\ max_messages' = 0 /\ query' = None
    /\ mode' = "none"
    /\ label_idx' = 0
    /\ message_ids' = <<>> /\ message_list' = <<>> /\ idx' = 0
    /\ highest_history_id' = None
    /\ start_history_id' = None /\ new_message_ids' = {} /\ current_history_id' = None
    /\ message' = NoMessage
    /\ filename' = NoFilename

\* The caller starts a process that calls sync(): cli/commands/sync.py builds a
\* new GmailClient, MaildirStorage, SyncState and SyncEngine for every run.
StartProcess(a) ==
    /\ pc = "idle"
    /\ pc' = "sync"
    /\ args' = a
    /\ ResetLocals
    /\ result' = SyncResult
    /\ raised' = None
    /\ UNCHANGED <<persistent, crashes>>

RunStart(a) ==
    [NoHist EXCEPT !.cursor0 = state_file,
                   !.visible0 = VisibleIds(store),
                   !.caller_max = a.max_messages]

Call(l, mx, s, d, f) ==
    LET a == [labels |-> l, max_messages |-> mx, since |-> s, days |-> d,
              force_full |-> f]
    IN  /\ StartProcess(a)
        /\ hist' = RunStart(a)

\* full_sync(labels, max_messages, query) up to its first remote call:
\* result = SyncResult(); highest_history_id = None; for label in labels.
EnterFull(l, mx, q) ==
    /\ mode' = "full"
    /\ labels' = l /\ max_messages' = mx /\ query' = q
    /\ result' = SyncResult
    /\ highest_history_id' = None
    /\ message_ids' = <<>> /\ message_list' = <<>> /\ idx' = 0
    /\ message' = NoMessage /\ filename' = NoFilename
    /\ start_history_id' = None /\ new_message_ids' = {} /\ current_history_id' = None
    /\ IF Len(l) > 0
       THEN pc' = "full_list" /\ label_idx' = 1
       ELSE pc' = "full_commit" /\ label_idx' = 0

\* An incremental_sync that goes over the labels stored with the cursor.
EnterIncremental_stored_labels(l, start) ==
    /\ mode' = "incremental"
    /\ labels' = state_file.synced_labels /\ max_messages' = 0 /\ query' = None
    /\ result' = SyncResult
    /\ highest_history_id' = None
    /\ message_ids' = <<>> /\ message_list' = <<>> /\ idx' = 0
    /\ message' = NoMessage /\ filename' = NoFilename
    /\ start_history_id' = start /\ new_message_ids' = {} /\ current_history_id' = start
    /\ IF Len(state_file.synced_labels) > 0
       THEN pc' = "incr_list" /\ label_idx' = 1
       ELSE pc' = "incr_commit" /\ label_idx' = 0

\* incremental_sync(labels) up to its first remote call.
EnterIncremental(l, start) ==
    /\ mode' = "incremental"
    /\ labels' = l /\ max_messages' = 0 /\ query' = None
    /\ result' = SyncResult
    /\ highest_history_id' = None
    /\ message_ids' = <<>> /\ message_list' = <<>> /\ idx' = 0
    /\ message' = NoMessage /\ filename' = NoFilename
    /\ start_history_id' = start /\ new_message_ids' = {} /\ current_history_id' = start
    /\ IF Len(l) > 0
       THEN pc' = "incr_list" /\ label_idx' = 1
       ELSE pc' = "incr_commit" /\ label_idx' = 0

\* SyncEngine.sync: build the query, read the cursor, choose the mode.
Sync ==
    /\ pc = "sync"
    /\ LET q == build_query(args.since, args.days)
           history_id == get_history_id(state_cache, state_file)
       IN  /\ state_cache' = cache_after_get(state_cache, state_file)
           /\ IF use_incremental(history_id, args.force_full, q)
              THEN /\ hist' = [hist EXCEPT !.selected = "incremental"]
                   \* incremental_sync: "if not start_history_id" falls back
                   /\ IF history_id = None
                      THEN EnterFull(args.labels, DefaultMaxMessages, None)
                      ELSE EnterIncremental(args.labels, history_id)
              ELSE /\ hist' = [hist EXCEPT !.selected = "full"]
                   /\ EnterFull(args.labels, args.max_messages, q)
    /\ args' = NoArgs
    /\ raised' = None
    /\ UNCHANGED <<persistent, crashes>>

\* GmailClient.list_messages(label_id, query, max_results): the first
\* max_results ids the remote lists for the label, most recent first.  The
\* dates the model's callers pass lie before every remote message.
RECURSIVE with_label(_, _)
with_label(ids, label_id) ==
    IF ids = <<>> THEN <<>>
    ELSE (IF label_id \in remote_labels[Head(ids)] THEN <<Head(ids)>> ELSE <<>>)
         \o with_label(Tail(ids), label_id)

list_messages(label_id, q, max_results) ==
    Take(with_label(RecentFirst, label_id), max_results)

\* What follows the message at idx: the next message, the next label, or the
\* end of the loops.
Advance ==
    /\ message' = NoMessage /\ filename' = NoFilename
    /\ IF mode = "full"
       THEN /\ message_list' = message_list
            /\ IF idx < Len(message_ids)
               THEN pc' = "full_msg" /\ idx' = idx + 1
                    /\ UNCHANGED <<label_idx, message_ids>>
               ELSE IF label_idx < Len(labels)
               THEN pc' = "full_list" /\ label_idx' = label_idx + 1
                    /\ message_ids' = <<>> /\ idx' = 0
               ELSE pc' = "full_commit" /\ UNCHANGED <<label_idx, message_ids, idx>>
       ELSE /\ UNCHANGED <<label_idx, message_ids, message_list>>
            /\ IF idx < Len(message_list)
               THEN pc' = "incr_msg" /\ idx' = idx + 1
               ELSE pc' = "incr_commit" /\ idx' = idx

FirstCall(h, name) == IF h.first_call = "none" THEN [h EXCEPT !.first_call = name] ELSE h

\* full_sync(l, mx, q) run to its end from the stored ids `stored`, when no
\* remote call and no write fails: the counts it returns and the ids stored.
RECURSIVE full_sync_loop(_, _, _)
full_sync_loop(ids, stored, r) ==
    IF ids = <<>> THEN [result |-> r, stored |-> stored]
    ELSE IF Head(ids) \in stored
    THEN full_sync_loop(Tail(ids), stored, [r EXCEPT !.skipped = @ + 1])
    ELSE full_sync_loop(Tail(ids), stored \cup {Head(ids)},
                        [r EXCEPT !.downloaded = @ + 1])

RECURSIVE listed(_, _, _)
listed(l, mx, q) ==
    IF l = <<>> THEN <<>>
    ELSE list_messages(Head(l), q, mx) \o listed(Tail(l), mx, q)

full_sync(l, mx, q, stored) == full_sync_loop(listed(l, mx, q), stored, SyncResult)

\* full_sync: list the messages of the next label.
FullList ==
    /\ pc = "full_list"
    /\ \/ \* list_messages raises
          /\ pc' = "raised" /\ raised' = "Transient"
          /\ UNCHANGED position
       \/ LET ids == list_messages(labels[label_idx], query, max_messages)
          IN  /\ raised' = None
              /\ UNCHANGED <<message, filename, message_list>>
              /\ IF Len(ids) > 0
                 THEN pc' = "full_msg" /\ message_ids' = ids /\ idx' = 1
                      /\ UNCHANGED label_idx
                 ELSE IF label_idx < Len(labels)
                 THEN pc' = "full_list" /\ label_idx' = label_idx + 1
                      /\ message_ids' = <<>> /\ idx' = 0
                 ELSE pc' = "full_commit" /\ message_ids' = <<>> /\ idx' = 0
                      /\ UNCHANGED label_idx
    /\ hist' = FirstCall(hist, "list_messages")
    /\ UNCHANGED <<persistent, crashes, args, state_cache, params,
                   highest_history_id, incr_locals, result>>

\* A tracking that keeps the historyId of the last message fetched.
track_highest_last(highest, h) == IF h = None THEN highest ELSE h

\* The highest historyId after a message with historyId h was fetched.
track_highest(highest, h) ==
    IF h = None THEN highest
    ELSE IF highest = None THEN h
    ELSE IF int(h) > int(highest) THEN h
    ELSE highest

\* A comparison that raises for every pair of historyIds.
int_raises_always(a, b) == TRUE

\* Whether the comparison of two historyIds raises ValueError.
int_raises(a, b) == ~(IsNumeric(a) /\ IsNumeric(b))

\* full_sync, one message: skip it if stored, else fetch it and track the
\* highest historyId.  LIds and HIds: the labelIds and historyIds the remote
\* may answer with.
progress_callback_zero_based(h, label, current, total) ==
    [h EXCEPT !.progress = Append(@, <<label, current - 1, total>>)]

\* if progress_callback: progress_callback(label, idx + 1, total), the first
\* statement of both loops' bodies. idx counts from 1 here, from 0 in the code.
progress_callback(h, label, current, total) ==
    [h EXCEPT !.progress = Append(@, <<label, current, total>>)]

FullMsg(LIds, HIds) ==
    /\ pc = "full_msg"
    /\ LET message_id == message_ids[idx]
           reported == progress_callback(hist, labels[label_idx], idx, Len(message_ids))
       IN  IF message_exists(store, message_id)
           THEN /\ result' = [result EXCEPT !.skipped = @ + 1]
                /\ Advance
                /\ hist' = reported
                /\ UNCHANGED <<highest_history_id, raised>>
           ELSE \/ \* get_message raises
                   /\ hist' = [reported EXCEPT !.fetched = Append(@, message_id)]
                   /\ result' = add_error(result, message_id, FetchError)
                   /\ Advance
                   /\ UNCHANGED <<highest_history_id, raised>>
                \/ \E label_ids \in LIds, h \in HIds :
                      /\ hist' = [reported EXCEPT
                                    !.fetched = Append(@, message_id),
                                    !.observed = IF h # None THEN @ \cup {h} ELSE @]
                      /\ UNCHANGED result
                      /\ IF h # None /\ highest_history_id # None
                            /\ int_raises(h, highest_history_id)
                         THEN /\ pc' = "raised" /\ raised' = "ValueError"
                              /\ UNCHANGED <<highest_history_id, position>>
                         ELSE /\ highest_history_id' = track_highest(highest_history_id, h)
                              /\ message' = [id |-> message_id, labelIds |-> label_ids]
                              /\ pc' = "write_tmp" /\ raised' = None
                              /\ UNCHANGED <<label_idx, message_ids, message_list, idx,
                                             filename>>
    /\ UNCHANGED <<persistent, crashes, args, state_cache, params, incr_locals>>

\* A write that puts the bytes where the message will be read.
tmp_file_in_cur(m, name, complete) ==
    File(get_primary_folder(m.labelIds), "cur", name, complete)

\* MaildirStorage.write_message splits at the rename: everything up to
\* tmp_path.write_bytes, then os.rename.
tmp_file(m, name, complete) == File(get_primary_folder(m.labelIds), "tmp", name, complete)

dest_file(m, name, complete) ==
    File(get_primary_folder(m.labelIds), dest_dir(m.labelIds), name, complete)

SamePath(f, g) == f.folder = g.folder /\ f.sub = g.sub /\ f.name = g.name

\* The store after the bytes of f are written at f's path.
write_bytes(files, f) == {g \in files : ~SamePath(g, f)} \cup {f}

\* The store after os.rename(src, dst): src's bytes now stand at dst's path.
rename(files, src, dst) ==
    LET moved == {g \in files : SamePath(g, src)}
    IN  {g \in files : ~SamePath(g, src) /\ ~SamePath(g, dst)}
        \cup {File(dst.folder, dst.sub, dst.name, g.complete) : g \in moved}

\* write_message up to the rename: ensure_folder, labels_to_flags,
\* generate_filename, tmp_path.write_bytes.  A failure is recorded by the
\* caller's except clause.  Times: what time.time() may return.
WriteTmp(Times) ==
    /\ pc = "write_tmp"
    /\ \/ \E now \in Times :
             LET name == generate_filename(message.id, labels_to_flags(message.labelIds), now)
             IN  /\ setup # "unwritable_root"
                 /\ filename' = name
                 /\ store' = write_bytes(store, tmp_file(message, name, TRUE))
                 /\ pc' = "rename"
                 /\ UNCHANGED <<result, label_idx, message_ids, message_list, idx, message>>
       \/ \* ensure_folder or write_bytes raises before a byte is written
          /\ UNCHANGED store
          /\ result' = add_error(result, message.id, WriteError)
          /\ Advance
    /\ UNCHANGED <<other, setup, remote_labels, state_file, crashes, args, state_cache, params,
                   highest_history_id, incr_locals, raised, hist>>

\* write_message from the rename on: os.rename(tmp_path, dest_path), then
\* result.downloaded += 1 in the caller.
Rename ==
    /\ pc = "rename"
    /\ store' = rename(store, tmp_file(message, filename, TRUE),
                       dest_file(message, filename, TRUE))
    /\ result' = [result EXCEPT !.downloaded = @ + 1]
    /\ Advance
    /\ UNCHANGED <<other, setup, remote_labels, state_file, crashes, args, state_cache, params,
                   highest_history_id, incr_locals, raised, hist>>

\* SyncState.save(history_id, synced_labels) at time now.
save(history_id, synced_labels, now) ==
    /\ state_file' = saved_file(history_id, synced_labels, now)
    /\ state_cache' = load(saved_file(history_id, synced_labels, now))
    /\ hist' = [hist EXCEPT !.saves = @ + 1]

\* full_sync, after the loops: "if highest_history_id: self._state.save(...)".
FullCommit(Times) ==
    /\ pc = "full_commit"
    /\ IF highest_history_id # None
       THEN \E now \in Times : save(highest_history_id, labels, now)
       ELSE UNCHANGED <<state_file, state_cache, hist>>
    /\ pc' = "done"
    /\ UNCHANGED <<other, setup, remote_labels, store, crashes, args, params, position,
                   highest_history_id, incr_locals, result, raised>>

\* GmailClient.list_history: the historyId of its result is the one the remote
\* answered with, or start_history_id when the answer carries none.
list_history_id(start, answered) == IF answered = None THEN start ELSE answered

\* The exception an HTTP status arrives as: 404 from list_history means the
\* historyId is expired, anything else is a transient failure.
HttpError(status) == IF status = 404 THEN "CursorExpired" ELSE "Transient"

\* A handler that takes no status for an expired historyId.
is_expired_never(status) == FALSE

\* incremental_sync: "if e.resp.status == 404".
is_expired(status) == status = 404

\* A tracking that never leaves the historyId the run started from.
track_current_start(current, h) == current

\* incremental_sync: current_history_id after a response with historyId h.
track_current(current, h) ==
    IF h # None /\ int(h) > int(current) THEN h ELSE current

\* incremental_sync: list the history of the next label.  Changes: the lists
\* of added ids the remote may answer with; HIds: the historyIds.
IncrListOf(Changes, HIds) ==
    /\ pc = "incr_list"
    /\ \/ \* list_history raises HttpError
          \E status \in HttpStatuses :
             IF is_expired(status)
             THEN \* return self.full_sync(labels, progress_callback=...)
                  /\ EnterFull(labels, DefaultMaxMessages, None)
                  /\ hist' = [FirstCall(hist, "list_history") EXCEPT !.fallback = TRUE]
                  /\ raised' = None
             ELSE \* raise
                  /\ pc' = "raised" /\ raised' = HttpError(status)
                  /\ hist' = FirstCall(hist, "list_history")
                  /\ UNCHANGED <<params, position, result, highest_history_id,
                                 incr_locals>>
       \/ \E changes \in Changes, answered \in HIds :
          LET h == list_history_id(start_history_id, answered)
              added == Range(changes)
          IN
             /\ hist' = [FirstCall(hist, "list_history") EXCEPT
                           !.responses = IF h # None THEN @ \cup {h} ELSE @,
                           !.first_seen = FirstSeen(@, changes),
                           !.shared = @ \cup (added \cap new_message_ids)]
             /\ UNCHANGED <<params, result, highest_history_id, message_ids, message,
                            filename, start_history_id>>
             /\ new_message_ids' = new_message_ids \cup added
             /\ IF h # None /\ int_raises(h, current_history_id)
                THEN /\ pc' = "raised" /\ raised' = "ValueError"
                     /\ UNCHANGED <<current_history_id, label_idx, message_list, idx>>
                ELSE /\ raised' = None
                     /\ current_history_id' = track_current(current_history_id, h)
                     /\ IF label_idx < Len(labels)
                        THEN /\ pc' = "incr_list" /\ label_idx' = label_idx + 1
                             /\ UNCHANGED <<message_list, idx>>
                        ELSE /\ label_idx' = label_idx
                             \* list(new_message_ids): a set has no order
                             /\ message_list' \in Orders(new_message_ids')
                             /\ IF new_message_ids' # {}
                                THEN pc' = "incr_msg" /\ idx' = 1
                                ELSE pc' = "incr_commit" /\ idx' = 0
    /\ UNCHANGED <<persistent, crashes, args, state_cache>>

\* The same, of a remote that may report any ids as added.
IncrList(HIds) == IncrListOf(AddedLists, HIds)

\* incremental_sync, one message: skip it if stored, else fetch it.
IncrMsg(LIds, HIds) ==
    /\ pc = "incr_msg"
    /\ LET message_id == message_list[idx]
           reported == progress_callback(hist, "incremental", idx, Len(message_list))
       IN  IF message_exists(store, message_id)
           THEN /\ result' = [result EXCEPT !.skipped = @ + 1]
                /\ Advance
                /\ hist' = reported
           ELSE /\ hist' = [reported EXCEPT !.fetched = Append(@, message_id)]
                /\ \/ \* get_message raises
                      /\ result' = add_error(result, message_id, FetchError)
                      /\ Advance
                   \/ \E label_ids \in LIds, h \in HIds :
                         /\ message' = [id |-> message_id, labelIds |-> label_ids]
                         /\ pc' = "write_tmp"
                         /\ UNCHANGED <<result, label_idx, message_ids, message_list, idx,
                                        filename>>
    /\ UNCHANGED <<persistent, crashes, args, state_cache, params, highest_history_id,
                   incr_locals, raised>>

\* incremental_sync, after the loop: self._state.save(current_history_id, labels).
IncrCommit(Times) ==
    /\ pc = "incr_commit"
    /\ \E now \in Times : save(current_history_id, labels, now)
    /\ pc' = "done"
    /\ UNCHANGED <<other, setup, remote_labels, store, crashes, args, params, position,
                   highest_history_id, incr_locals, result, raised>>

\* The process ends: the command prints the counts, or the error, and exits;
\* or it was killed and is gone.
Exit ==
    /\ pc \in {"done", "raised", "crashed"}
    /\ pc' = "idle"
    /\ args' = NoArgs
    /\ ResetLocals
    /\ result' = SyncResult
    /\ raised' = None
    /\ hist' = NoHist
    /\ UNCHANGED <<persistent, crashes>>

\* Every run of the engine, from a new account on, with every answer the remote
\* may give; the messages all carry the same labels.
Next ==
    \/ \E l \in LabelLists, mx \in MaxMessagesArgs, s \in SinceArgs, d \in DaysArgs,
          f \in BOOLEAN : Call(l, mx, s, d, f)
    \/ Sync
    \/ FullList
    \/ FullMsg(InboxOnly, AnsweredIds)
    \/ WriteTmp(OneTime)
    \/ Rename
    \/ FullCommit(OneTime)
    \/ IncrList(AnsweredIds)
    \/ IncrMsg(InboxOnly, AnsweredIds)
    \/ IncrCommit(OneTime)
    \/ Exit

Spec == Init /\ [][Next]_vars

\* ------------------------------------------------------------- crashes
\* The process is killed between two steps, or in the middle of
\* tmp_path.write_bytes: then the file in tmp/ may not exist yet, hold a part
\* of the bytes, or hold them all.
Crash(Times) ==
    /\ ~Stopped
    /\ crashes < MaxCrashes
    /\ crashes' = crashes + 1
    /\ pc' = "crashed"
    /\ IF pc = "write_tmp"
       THEN \/ store' = store
            \/ \E now \in Times, complete \in BOOLEAN :
                  store' = write_bytes(store,
                      tmp_file(message,
                               generate_filename(message.id,
                                                 labels_to_flags(message.labelIds), now),
                               complete))
       ELSE store' = store
    /\ UNCHANGED <<other, setup, remote_labels, state_file, args, state_cache, params, position,
                   highest_history_id, incr_locals, result, raised, hist>>

\* The process is killed inside SyncState.save: write_text has opened the
\* state file for writing, which empties it, and has written a part of the
\* JSON text or all of it.
CrashInSave(Times) ==
    /\ \/ pc = "full_commit" /\ highest_history_id # None
       \/ pc = "incr_commit"
    /\ crashes < MaxCrashes
    /\ crashes' = crashes + 1
    /\ pc' = "crashed"
    /\ \/ state_file' = CorruptFile
       \/ \E now \in Times :
             state_file' = saved_file(IF mode = "full" THEN highest_history_id
                                     ELSE current_history_id, labels, now)
    /\ UNCHANGED <<other, setup, remote_labels, store, args, state_cache, params, position,
                   highest_history_id, incr_locals, result, raised, hist>>

\* Forced full syncs of a mailbox whose messages differ in their labels, with
\* processes killed at any step.
NextCrash ==
    \/ \E l \in LabelLists : Call(l, DefaultMaxMessages, None, None, TRUE)
    \/ Sync
    \/ FullList
    \/ FullMsg(LabelIdLists, OneId)
    \/ WriteTmp(OneTime)
    \/ Rename
    \/ FullCommit(OneTime)
    \/ Crash(OneTime)
    \/ CrashInSave(OneTime)
    \/ Exit

SpecCrash == Init /\ [][NextCrash]_vars

\* ------------------------------------------------- writes at two times
\* Forced full syncs of the INBOX, with processes killed at any step, when the
\* clock may have moved on between two writes.
NextTimes ==
    \/ \E l \in InboxOnly : Call(l, DefaultMaxMessages, None, None, TRUE)
    \/ Sync
    \/ FullList
    \/ FullMsg(InboxOnly, OneId)
    \/ WriteTmp(TwoTimes)
    \/ Rename
    \/ FullCommit(OneTime)
    \/ Crash(TwoTimes)
    \/ Exit

SpecTimes == Init /\ [][NextTimes]_vars

\* ------------------------------------------- write_message, any labels
\* MaildirStorage.write_message called on an empty store with a message of any
\* labelIds, the folder being get_primary_folder(labelIds) as in the engine.
InitWrite ==
    /\ setup = "ok"
    /\ other = NoOther
    /\ remote_labels = [m \in MsgIds |-> {}]
    /\ store = {}
    /\ state_file = AbsentFile
    /\ crashes = 0
    /\ pc = "write_message"
    /\ args = NoArgs
    /\ state_cache = NoState
    /\ labels = <<>> /\ max_messages = 0 /\ query = None
    /\ mode = "none"
    /\ label_idx = 0
    /\ message_ids = <<>> /\ message_list = <<>> /\ idx = 0
    /\ highest_history_id = None
    /\ start_history_id = None /\ new_message_ids = {} /\ current_history_id = None
    /\ message \in {[id |-> "A", labelIds |-> l] : l \in LabelInputs}
    /\ filename = NoFilename
    /\ result = SyncResult
    /\ raised = None
    /\ hist = NoHist

\* write_message from its call to its return: the bytes are written under
\* tmp/ and renamed to cur/ or new/ of the folder.
write_message(Times) ==
    /\ pc = "write_message"
    /\ \E now \in Times :
          LET name == generate_filename(message.id, labels_to_flags(message.labelIds), now)
          IN  /\ filename' = name
              /\ store' = rename(write_bytes(store, tmp_file(message, name, TRUE)),
                                 tmp_file(message, name, TRUE),
                                 dest_file(message, name, TRUE))
    /\ pc' = "returned"
    /\ UNCHANGED <<other, setup, remote_labels, state_file, crashes, args, state_cache, params,
                   label_idx, message_ids, message_list, idx, message,
                   highest_history_id, incr_locals, result, raised, hist>>

NextWrite == write_message(OneTime)

SpecWrite == InitWrite /\ [][NextWrite]_vars

\* ------------------------------------------------------ the sync command
\* cli/commands/sync.py, sync, from the configuration to the credentials: no
\* account and another provider end in typer.Exit(1); then the command calls
\* get_credentials(account_name), which sync/gmail.py defines without a
\* parameter, so the call raises TypeError and the process ends with status 1.
sync_command ==
    /\ pc = "idle"
    /\ pc' = "exit_1"
    /\ raised' = IF setup \in {"no_account", "unsupported_provider"}
                 THEN None ELSE "TypeError"
    /\ hist' = [NoHist EXCEPT !.cursor0 = state_file, !.visible0 = VisibleIds(store)]
    /\ args' = NoArgs
    /\ ResetLocals
    /\ result' = SyncResult
    /\ UNCHANGED <<persistent, crashes>>

\* The command has ended; the next one may start.
ExitCommand ==
    /\ pc = "exit_1"
    /\ pc' = "idle"
    /\ raised' = None
    /\ hist' = NoHist
    /\ UNCHANGED <<persistent, crashes, args, state_cache, params, position,
                   highest_history_id, incr_locals, result>>

\* engine.sync(..., force_full=True) called on an engine built as the command
\* builds it, by a caller that holds credentials: MaildirStorage(mail_path)
\* and SyncState(account_name) check nothing about the storage root.
CallEngine(l) ==
    /\ setup \in {"ok", "unwritable_root"}
    /\ Call(l, DefaultMaxMessages, None, None, TRUE)

\* Any environment, a new account.
InitSetup ==
    /\ setup \in SetupStates
    /\ other = NoOther
    /\ remote_labels \in [MsgIds -> SUBSET SyncLabels]
    /\ store = {}
    /\ state_file = AbsentFile
    /\ crashes = 0
    /\ pc = "idle"
    /\ args = NoArgs
    /\ state_cache = NoState
    /\ labels = <<>> /\ max_messages = 0 /\ query = None
    /\ mode = "none"
    /\ label_idx = 0
    /\ message_ids = <<>> /\ message_list = <<>> /\ idx = 0
    /\ highest_history_id = None
    /\ start_history_id = None /\ new_message_ids = {} /\ current_history_id = None
    /\ message = NoMessage
    /\ filename = NoFilename
    /\ result = SyncResult
    /\ raised = None
    /\ hist = NoHist

NextSetup ==
    \/ sync_command
    \/ ExitCommand
    \/ \E l \in InboxOnly : CallEngine(l)
    \/ Sync
    \/ FullList
    \/ FullMsg(InboxOnly, OneId)
    \/ WriteTmp(OneTime)
    \/ Rename
    \/ FullCommit(OneTime)
    \/ Exit

SpecSetup == InitSetup /\ [][NextSetup]_vars

\* ------------------------------------------------------ the cursor store
\* SyncState(account_name).clear() between two runs: the state file is
\* deleted if it exists.
Clear ==
    /\ pc = "idle"
    /\ state_file' = AbsentFile
    /\ UNCHANGED <<other, setup, remote_labels, store, crashes, pc, args, state_cache, params,
                   position, highest_history_id, incr_locals, result, raised, hist>>

\* Plain runs of sync() over the INBOX, the cursor cleared between runs or
\* left half-written by a process killed in save.
NextCursor ==
    \/ \E l \in InboxOnly : Call(l, DefaultMaxMessages, None, None, FALSE)
    \/ Sync
    \/ FullList
    \/ FullMsg(InboxOnly, NumericIds)
    \/ WriteTmp(OneTime)
    \/ Rename
    \/ FullCommit(OneTime)
    \/ IncrList(NumericIds)
    \/ IncrMsg(InboxOnly, NumericIds)
    \/ IncrCommit(OneTime)
    \/ Clear
    \/ CrashInSave(OneTime)
    \/ Exit

SpecCursor == Init /\ [][NextCursor]_vars

\* ------------------------------------------------------- two processes
\* The locals of the process that is taking steps.
Locals ==
    [pc |-> pc, args |-> args, state_cache |-> state_cache, labels |-> labels,
     max_messages |-> max_messages, query |-> query, mode |-> mode,
     label_idx |-> label_idx, message_ids |-> message_ids,
     message_list |-> message_list, idx |-> idx,
     highest_history_id |-> highest_history_id, start_history_id |-> start_history_id,
     new_message_ids |-> new_message_ids, current_history_id |-> current_history_id,
     message |-> message, filename |-> filename, result |-> result, raised |-> raised,
     hist |-> hist]

\* The scheduler passes to the other process: each SyncEngine has its own
\* locals and its own SyncState object, the Maildir and the state file are
\* shared, and nothing locks them.  A process left while it is in a run makes
\* the runs unserialized.
Switch ==
    /\ other.switches < MaxSwitches
    /\ other' = [locals |-> Locals,
                 overlap |-> other.overlap \/ pc # "idle",
                 switches |-> other.switches + 1]
    /\ pc' = other.locals.pc
    /\ args' = other.locals.args
    /\ state_cache' = other.locals.state_cache
    /\ labels' = other.locals.labels
    /\ max_messages' = other.locals.max_messages
    /\ query' = other.locals.query
    /\ mode' = other.locals.mode
    /\ label_idx' = other.locals.label_idx
    /\ message_ids' = other.locals.message_ids
    /\ message_list' = other.locals.message_list
    /\ idx' = other.locals.idx
    /\ highest_history_id' = other.locals.highest_history_id
    /\ start_history_id' = other.locals.start_history_id
    /\ new_message_ids' = other.locals.new_message_ids
    /\ current_history_id' = other.locals.current_history_id
    /\ message' = other.locals.message
    /\ filename' = other.locals.filename
    /\ result' = other.locals.result
    /\ raised' = other.locals.raised
    /\ hist' = other.locals.hist
    /\ UNCHANGED <<setup, remote_labels, store, state_file, crashes>>

\* A remote whose messages are not changed any more: get_message answers with
\* the historyId of the message's last change, and B, the more recent of the
\* two, was changed after A.
MessageHistoryIds == [m \in MsgIds |-> IF m = "B" THEN {"20"} ELSE {"10"}]

\* What such a remote answers for the message full_sync is about to fetch.
HistoryIdOfMessage == MessageHistoryIds[message_ids[idx]]

\* Two processes that run forced full syncs of the INBOX on one account, the
\* scheduler passing from one to the other between any two steps.
NextConcurrent ==
    \/ \E l \in InboxOnly : Call(l, DefaultMaxMessages, None, None, TRUE)
    \/ Sync
    \/ FullList
    \/ FullMsg(LabelIdLists, HistoryIdOfMessage)
    \/ WriteTmp(OneTime)
    \/ Rename
    \/ FullCommit(OneTime)
    \/ Exit
    \/ Switch

\* The sequence number at which the remote added a message.
AddedAt(m) == int(CHOOSE h \in MessageHistoryIds[m] : TRUE)

\* What that remote answers to list_history(start_history_id, label): the
\* messages of the label added after the cursor, in some order, and the
\* sequence number it has reached.
ChangesSince ==
    UNION {Orders({m \in MsgIds : /\ l \in remote_labels[m]
                                  /\ AddedAt(m) > int(s)}) :
           l \in {labels[label_idx]}, s \in {start_history_id} \cap NumericIds}

ReachedHistoryId == {"20"}

\* Syncs of the INBOX, plain or forced, one after the other, against that
\* remote; a fetch or a write may fail, a cursor may have expired.
NextProgress ==
    \/ \E l \in InboxOnly, f \in BOOLEAN : Call(l, DefaultMaxMessages, None, None, f)
    \/ Sync
    \/ FullList
    \/ FullMsg(LabelIdLists, HistoryIdOfMessage)
    \/ WriteTmp(OneTime)
    \/ Rename
    \/ FullCommit(OneTime)
    \/ IncrListOf(ChangesSince, ReachedHistoryId)
    \/ IncrMsg(LabelIdLists, NumericIds)
    \/ IncrCommit(OneTime)
    \/ Exit

SpecProgress == Init /\ [][NextProgress]_vars

\* The sequence numbers that remote has dropped from its history: to
\* list_history from one of them it answers with an HttpError, never a list.
ExpiredIds == {"10"}

ChangesIfRetained == IF start_history_id \in ExpiredIds THEN {} ELSE ChangesSince

\* Syncs of the INBOX, one after the other, against a remote whose history
\* no longer reaches back to the older cursor.  Nothing was added after the
\* newer one, so that the loop of incremental_sync has no id to go over.
NextExpired ==
    \/ \E l \in InboxOnly, f \in BOOLEAN : Call(l, DefaultMaxMessages, None, None, f)
    \/ Sync
    \/ FullList
    \/ FullMsg(LabelIdLists, HistoryIdOfMessage)
    \/ WriteTmp(OneTime)
    \/ Rename
    \/ FullCommit(OneTime)
    \/ IncrListOf(ChangesIfRetained, ReachedHistoryId)
    \/ IncrCommit(OneTime)
    \/ Exit

SpecExpired == Init /\ [][NextExpired]_vars

\* A new account whose two messages are both in the INBOX.
InitConcurrent ==
    /\ other = NoOther
    /\ setup = "ok"
    /\ remote_labels = [m \in MsgIds |-> {"INBOX"}]
    /\ store = {}
    /\ state_file = AbsentFile
    /\ crashes = 0
    /\ pc = "idle"
    /\ args = NoArgs
    /\ state_cache = NoState
    /\ labels = <<>> /\ max_messages = 0 /\ query = None
    /\ mode = "none"
    /\ label_idx = 0
    /\ message_ids = <<>> /\ message_list = <<>> /\ idx = 0
    /\ highest_history_id = None
    /\ start_history_id = None /\ new_message_ids = {} /\ current_history_id = None
    /\ message = NoMessage
    /\ filename = NoFilename
    /\ result = SyncResult
    /\ raised = None
    /\ hist = NoHist

SpecConcurrent == InitConcurrent /\ [][NextConcurrent]_vars

\* ---------------------------------------------------- the same run, again
\* The caller runs a forced full sync on a new account ...
CallFirst(l, mx) ==
    LET a == [labels |-> l, max_messages |-> mx, since |-> None, days |-> None,
              force_full |-> TRUE]
    IN  /\ hist.run = 0
        /\ StartProcess(a)
        /\ hist' = [RunStart(a) EXCEPT !.run = 1, !.call = a]

\* ... and, when the run has ended with a result, runs it again with the same
\* arguments, in a new process.
CallAgain ==
    /\ pc = "done"
    /\ hist.run < MaxRuns
    /\ pc' = "sync"
    /\ args' = hist.call
    /\ ResetLocals
    /\ result' = SyncResult
    /\ raised' = None
    /\ hist' = [RunStart(hist.call) EXCEPT
                  !.run = hist.run + 1,
                  !.call = hist.call,
                  !.prev = [selected |-> hist.selected, fallback |-> hist.fallback,
                            ended |-> pc, downloaded |-> result.downloaded,
                            skipped |-> result.skipped, errors |-> result.errors]]
    /\ UNCHANGED <<persistent, crashes>>

NextTwice ==
    \/ \E l \in LabelLists, mx \in MaxMessagesArgs : CallFirst(l, mx)
    \/ CallAgain
    \/ Sync
    \/ FullList
    \/ FullMsg(InboxOnly, AnsweredIds)
    \/ WriteTmp(OneTime)
    \/ Rename
    \/ FullCommit(OneTime)

SpecTwice == Init /\ [][NextTwice]_vars

\* ----------------------------------------------------------------- claims
\* C1: sync() selects the mode by four rules taken in order: force_full ->
\* full; a date filter (since or days) -> full; no cursor stored -> full;
\* otherwise incremental.  The first remote call of the run is list_messages
\* when full was selected and list_history when incremental was selected.
C1_ModeSelection ==
    [][/\ pc = "sync" =>
            LET rule == IF args.force_full THEN "full"
                        ELSE IF args.since # None \/ args.days # None THEN "full"
                        ELSE IF state_file.kind # "json" THEN "full"
                        ELSE "incremental"
            IN  hist'.selected = rule /\ mode' = rule
       /\ hist.first_call = "none" /\ hist'.first_call # "none" =>
            hist'.first_call = IF hist'.selected = "full" THEN "list_messages"
                               ELSE "list_history"]_vars

\* A run with a cursor stored and a date filter given lists messages first.
C1_Witness ==
    /\ hist.cursor0.kind = "json"
    /\ query # None
    /\ hist.selected = "full"
    /\ hist.first_call = "list_messages"

\* C2: when a full sync ends, if a historyId was observed among the fetched
\* messages the cursor file holds the numerically greatest of them and the
\* requested label list; if none was observed (nothing fetched) the cursor file
\* is the one the run found and was not written.
C2_FullSyncCommit ==
    pc = "done" /\ mode = "full" =>
        IF hist.observed # {}
        THEN /\ state_file.kind = "json"
             /\ state_file.history_id \in hist.observed
             /\ \A g \in hist.observed :
                   IsNumeric(g) /\ IsNumeric(state_file.history_id)
                       => int(g) <= int(state_file.history_id)
             /\ state_file.synced_labels = labels
             /\ hist.saves = 1
        ELSE state_file = hist.cursor0 /\ hist.saves = 0

\* A full sync over two labels fetched messages of historyId 10 and 20 and
\* committed 20.
C2_Witness ==
    /\ pc = "done" /\ mode = "full"
    /\ labels = <<"INBOX", "SENT">>
    /\ hist.observed = {"10", "20"}
    /\ Len(hist.fetched) = 2
    /\ state_file.history_id = "20"

\* C3: an incremental sync that ends always writes the cursor file, once, with
\* the requested labels, also when it fetched nothing; with a provider whose
\* historyId does not go backwards (no response below the stored cursor) the
\* historyId written is the numerically greatest of the responses of all labels.
C3_IncrementalCommit ==
    pc = "done" /\ mode = "incremental" =>
        /\ hist.saves = 1
        /\ state_file.kind = "json"
        /\ state_file.synced_labels = labels
        /\ hist.responses # {}
        /\ (\A r \in hist.responses : int(r) >= int(hist.cursor0.history_id)) =>
              /\ state_file.history_id \in hist.responses
              /\ \A r \in hist.responses : int(r) <= int(state_file.history_id)
        /\ new_message_ids = {} =>
              result.downloaded = 0 /\ result.skipped = 0 /\ result.errors = 0

\* Caught up: cursor 10 stored, no id added for either label, the responses
\* carry 10 and 20, and 20 is written.
C3_Witness ==
    /\ pc = "done" /\ mode = "incremental"
    /\ labels = <<"INBOX", "SENT">>
    /\ hist.cursor0.history_id = "10"
    /\ hist.responses = {"10", "20"}
    /\ new_message_ids = {}
    /\ result.downloaded = 0
    /\ state_file.history_id = "20"

\* C4: when list_history answers 404 for a label, first or later, the run
\* goes on as a full sync that starts again at the first of all the labels asked
\* for, with nothing collected, nothing fetched and nothing saved by the
\* incremental path; the run stays a full sync, and no run ends by raising
\* the expiry to the caller.
C4_ExpiredFallsBack ==
    [][/\ pc = "incr_list" /\ hist'.fallback =>
            /\ pc' = "full_list" /\ mode' = "full"
            /\ labels' = labels /\ label_idx' = 1
            /\ new_message_ids' = {} /\ message_list' = <<>>
            /\ result' = SyncResult
            /\ hist'.fetched = <<>> /\ hist'.saves = 0
            /\ state_file' = hist'.cursor0
       /\ hist'.fallback =>
            /\ mode' = "full"
            /\ pc' \notin {"incr_list", "incr_msg", "incr_commit"}
            /\ pc' = "done" => label_idx' = Len(labels')
       /\ raised' # "CursorExpired"]_vars

\* The first label answered, the second answered 404, and the full sync that
\* followed downloaded from both labels.
C4_Witness ==
    /\ hist.fallback /\ pc = "done"
    /\ hist.responses # {}
    /\ labels = <<"INBOX", "SENT">>
    /\ result.downloaded = 2

\* C5: a run in which list_history answered 404 and nothing else failed ends
\* with the counts, and the stored ids, of a full sync of the same labels with
\* the caller's max_messages started from the same store.
C5_FallbackEqualsFull ==
    pc = "done" /\ hist.fallback /\ result.errors = 0 =>
        LET baseline == full_sync(labels, hist.caller_max, None, hist.visible0)
        IN  /\ result.downloaded = baseline.result.downloaded
            /\ result.skipped = baseline.result.skipped
            /\ VisibleIds(store) = baseline.stored

\* C6: when an incremental sync ends, every id the responses reported, also
\* one reported for several labels, was passed to get_message once if it was
\* not stored and never if it was; the counters add up to the number of distinct
\* ids, and downloaded counts each newly stored id once.
C6_CrossLabelDedup ==
    pc = "done" /\ mode = "incremental" =>
        /\ \A m \in new_message_ids :
              Cardinality({i \in 1..Len(hist.fetched) : hist.fetched[i] = m})
                  = IF m \in hist.visible0 THEN 0 ELSE 1
        /\ result.downloaded = Cardinality(VisibleIds(store) \ hist.visible0)
        /\ result.downloaded + result.skipped + result.errors
              = Cardinality(new_message_ids)

\* One id was reported for both labels, fetched once and counted once.
C6_Witness ==
    /\ pc = "done" /\ mode = "incremental"
    /\ Cardinality(hist.shared) = 1
    /\ new_message_ids = hist.shared
    /\ Len(hist.fetched) = 1
    /\ result.downloaded = 1

\* C7: in both modes a step in which get_message or the write of a message
\* fails adds one to errors, appends "<id>: <error>" for the id at hand to
\* error_details, leaves the other counters alone, raises nothing, and moves on
\* to the next id of the label, else to the next label, else to the commit.
C7_MessageFailureContinues ==
    [][(result'.errors # result.errors /\ pc \in {"full_msg", "incr_msg", "write_tmp"}) =>
          LET ids == IF mode = "full" THEN message_ids ELSE message_list
              message_id == ids[idx]
          IN  /\ result'.errors = result.errors + 1
              /\ \E e \in MessageErrors :
                    result'.error_details
                        = Append(result.error_details, <<message_id, ": ", e>>)
              /\ result'.downloaded = result.downloaded
              /\ result'.skipped = result.skipped
              /\ raised' = None
              /\ IF idx < Len(ids)
                 THEN /\ pc' = IF mode = "full" THEN "full_msg" ELSE "incr_msg"
                      /\ idx' = idx + 1 /\ label_idx' = label_idx
                 ELSE IF mode = "full" /\ label_idx < Len(labels)
                 THEN pc' = "full_list" /\ label_idx' = label_idx + 1
                 ELSE pc' = IF mode = "full" THEN "full_commit" ELSE "incr_commit"
      ]_vars

\* A run failed to fetch B, went on, downloaded A and ended.
C7_Witness ==
    /\ pc = "done"
    /\ result.errors = 1 /\ result.downloaded = 1
    /\ result.error_details = <<ErrorDetail("B", FetchError)>>
    /\ hist.fetched = <<"B", "A">>

\* C8, as the spec states it: once a run has started, sync() does not raise.
C8_NeverRaises == pc # "raised" /\ raised = None

\* C8, as the code has it: sync() raises in three cases only: list_messages
\* fails (Transient), list_history fails with a status other than 404
\* (Transient), or a historyId that is not a decimal number has to be compared
\* (ValueError).  A step that fetches or writes a message with numeric
\* historyIds, a 404, and the commit never raise, and a run that ends with a
\* result ends without an exception.
C8_RaisesOnlyOnListing ==
    [][/\ pc' = "raised" /\ pc # "raised" =>
            /\ pc \in {"full_list", "incr_list", "full_msg"}
            /\ pc = "full_list" => raised' = "Transient"
            /\ pc = "full_msg" =>
                  /\ raised' = "ValueError"
                  /\ \E h \in hist'.observed : ~IsNumeric(h)
            /\ pc = "incr_list" =>
                  \/ raised' = "Transient"
                  \/ /\ raised' = "ValueError"
                     /\ \E h \in hist'.responses \cup {start_history_id} : ~IsNumeric(h)
            /\ result' = result
            /\ state_file' = state_file
       /\ pc' # "raised" => raised' = None
      ]_vars

\* The listing of the second label failed after a message of the first label
\* was downloaded: the run ends with the exception and no result.
C8_Witness ==
    /\ pc = "raised" /\ raised = "Transient"
    /\ mode = "full" /\ label_idx = 2
    /\ result.downloaded = 1

\* C9, as the spec states it: of two full syncs with the same arguments on an
\* unchanged remote, neither meeting an error, the second downloads nothing and
\* skips as many messages as the first one downloaded.
C9_SecondRunSkipsN ==
    pc = "done" /\ hist.run = 2 /\ hist.prev.errors = 0 /\ result.errors = 0 =>
        result.downloaded = 0 /\ result.skipped = hist.prev.downloaded

\* C9, as the code has it: the second run handles as many listed entries as
\* the first and skips at least those the first downloaded or skipped; when the
\* first met no error the second downloads nothing and skips every listed
\* entry, an id listed under two labels twice: the number the first run
\* downloaded plus the number it skipped.
C9_SecondRunSkipsListed ==
    pc = "done" /\ hist.run = 2 =>
        /\ result.downloaded + result.skipped + result.errors
              = hist.prev.downloaded + hist.prev.skipped + hist.prev.errors
        /\ result.skipped >= hist.prev.downloaded + hist.prev.skipped
        /\ hist.prev.errors = 0 =>
              /\ result.downloaded = 0 /\ result.errors = 0
              /\ result.skipped = hist.prev.downloaded + hist.prev.skipped
              /\ hist.prev.downloaded = Cardinality(VisibleIds(store))

\* Both messages carry both labels: the first run downloaded 2 and skipped 2,
\* the second skipped 4.
C9_Witness ==
    /\ pc = "done" /\ hist.run = 2
    /\ hist.prev.downloaded = 2 /\ hist.prev.skipped = 2 /\ hist.prev.errors = 0
    /\ result.downloaded = 0 /\ result.skipped = 4

\* C10: write_message puts the bytes in tmp/ and renames the file into cur/
\* or new/.  Every file under cur/ or new/ holds all its bytes; a process killed
\* before the rename leaves the message not stored (message_exists is false,
\* so the next run fetches it); the rename leaves one file of the message
\* under cur/ or new/, none under its tmp/ name, and a later kill keeps it.
C10_WriteAtomic ==
    [][/\ \A f \in store' : f.sub \in {"cur", "new"} => f.complete
       /\ pc' = "crashed" /\ pc \in {"write_tmp", "rename"} =>
             ~message_exists(store', message.id)
       /\ pc = "full_msg" /\ pc' # "crashed" /\ ~message_exists(store, message_ids[idx]) =>
             hist'.fetched = Append(hist.fetched, message_ids[idx])
       /\ pc = "rename" /\ pc' # "crashed" =>
             /\ Cardinality({f \in store' : /\ f.sub \in {"cur", "new"}
                                           /\ f.name.message_id = message.id}) = 1
             /\ \A f \in store' : f.sub = "tmp" => f.name # filename
       /\ pc' = "crashed" =>
             {f \in store' : f.sub \in {"cur", "new"}}
                 = {f \in store : f.sub \in {"cur", "new"}}
      ]_vars

\* A process was killed in the middle of writing B; the next run fetched B
\* again and stored it, and the part-written file is still in tmp/.
C10_Witness ==
    /\ crashes = 1
    /\ message_exists(store, "B")
    /\ \E f \in store : f.sub = "tmp" /\ f.name.message_id = "B" /\ ~f.complete
    /\ pc = "done"

\* C11: when a process is killed in a run that found a cursor committed, the
\* state file holds that cursor or the one the run was saving: what the next
\* run loads is never corrupt and never absent.
C11_SaveSurvivesCrash ==
    pc = "crashed" /\ hist.cursor0.kind = "json" =>
        \/ state_file = hist.cursor0
        \/ /\ state_file.kind = "json"
           /\ state_file.synced_labels = labels
           /\ state_file.history_id = IF mode = "full" THEN highest_history_id
                                      ELSE current_history_id


\* The files of message id under cur/ or new/ of any folder.
Visible(files, id) == {f \in files : f.sub \in {"cur", "new"} /\ f.name.message_id = id}

\* The run stands after the last message of the last label.
AfterLastMessage ==
    /\ pc \in {"full_commit", "incr_commit"}
    /\ mode = "full" => label_idx = Len(labels) /\ idx = Len(message_ids)
    /\ mode = "incremental" => idx = Len(message_list)

C13_ExistsScansCurAndNew ==
    \A id \in MsgIds :
        /\ message_exists(store, id) <=> Visible(store, id) # {}
        /\ (\A f \in store : f.name.message_id = id => f.sub = "tmp") =>
               ~message_exists(store, id)

\* A is in tmp/ only and is reported as not stored; B is stored under new/ of
\* the Sent folder and is reported as stored.
C13_Witness ==
    /\ \E f \in store : f.name.message_id = "A" /\ f.sub = "tmp"
    /\ ~message_exists(store, "A")
    /\ \E f \in store : f.name.message_id = "B" /\ f.sub = "new" /\ f.folder = <<"Sent">>
    /\ message_exists(store, "B")


\* C14: when write_message has returned, the tmp/ directory of the folder it
\* wrote to holds no file of that message, also when an earlier write of the
\* message was cut between the write to tmp/ and the rename.
C14_TmpEmptyAfterWrite ==
    [][(pc = "rename" /\ pc' # "crashed") =>
          \A f \in store' :
              (f.sub = "tmp" /\ f.folder = get_primary_folder(message.labelIds)) =>
                  f.name.message_id # message.id
      ]_vars


Written == CHOOSE f \in store : TRUE

\* The folder the resolution rule gives for label_ids when the labels of the
\* set virtual never name a folder.
ResolvedFolder(label_ids, virtual) ==
    LET L == Range(label_ids)
        rest == SelectSeq(label_ids,
                    LAMBDA l : l \notin LABEL_FOLDER_MAP_keys /\ l \notin virtual)
    IN  IF "INBOX" \in L THEN <<"INBOX">>
        ELSE IF "SENT" \in L THEN <<"Sent">>
        ELSE IF "DRAFT" \in L THEN <<"Drafts">>
        ELSE IF "TRASH" \in L THEN <<"Trash">>
        ELSE IF "SPAM" \in L THEN <<"Spam">>
        ELSE IF rest # <<>> THEN <<"Labels", Head(rest)>>
        ELSE <<"INBOX">>

\* The category tags among the labels.
CategoryTags ==
    {"CATEGORY_PERSONAL", "CATEGORY_SOCIAL", "CATEGORY_PROMOTIONS", "CATEGORY_UPDATES",
     "CATEGORY_FORUMS"}

\* C17 as stated: the folder of a written message is that of the first of
\* INBOX, SENT, DRAFT, TRASH, SPAM it carries, else Labels/<name> of its first
\* label that is neither one of these nor UNREAD, STARRED or a category tag,
\* else INBOX.
C17_PrimaryFolder ==
    pc = "returned" =>
        Written.folder = ResolvedFolder(message.labelIds,
                                        {"UNREAD", "STARRED"} \cup CategoryTags)

\* C17: the folder of a written message is that of the first of INBOX, SENT,
\* DRAFT, TRASH, SPAM it carries, else Labels/<name> of its first label that
\* is neither one of these nor UNREAD, STARRED, IMPORTANT or a category tag,
\* else INBOX; {SENT, DRAFT, UNREAD} gives Sent and {UNREAD, STARRED} INBOX.
C17_PrimaryFolderImportant ==
    /\ pc = "returned" =>
          Written.folder = ResolvedFolder(message.labelIds,
                               {"UNREAD", "STARRED", "IMPORTANT"} \cup CategoryTags)
    /\ message.labelIds = <<"SENT", "DRAFT", "UNREAD">> /\ pc = "returned" =>
          Written.folder = <<"Sent">>
    /\ message.labelIds = <<"UNREAD", "STARRED">> /\ pc = "returned" =>
          Written.folder = <<"INBOX">>

\* A message that carries IMPORTANT before a user label was written to the
\* folder of the user label.
C17_Witness ==
    /\ pc = "returned"
    /\ message.labelIds = <<"UNREAD", "IMPORTANT", "MyLabel">>
    /\ Written.folder = <<"Labels", "MyLabel">>

\* The flag letters in alphabetical order.
FlagLetters == <<"D", "F", "S", "T">>

\* C18: the flags of a written message are, in alphabetical order and each
\* once, S exactly when UNREAD is absent, F exactly when STARRED is present, D
\* exactly when DRAFT is present, T exactly when TRASH is present, and no
\* other letter; {INBOX} gives "S", {INBOX, UNREAD} "", {STARRED, INBOX} "FS"
\* and {DRAFT, STARRED} "DFS".
C18_DeriveFlags ==
    pc = "returned" =>
        LET flags == Written.name.flags
            L == Range(message.labelIds)
        IN  /\ flags = SelectSeq(FlagLetters, LAMBDA c : c \in Range(flags))
            /\ "S" \in Range(flags) <=> "UNREAD" \notin L
            /\ "F" \in Range(flags) <=> "STARRED" \in L
            /\ "D" \in Range(flags) <=> "DRAFT" \in L
            /\ "T" \in Range(flags) <=> "TRASH" \in L
            /\ message.labelIds = <<"INBOX">> => flags = <<"S">>
            /\ message.labelIds = <<"INBOX", "UNREAD">> => flags = <<>>
            /\ message.labelIds = <<"STARRED", "INBOX">> => flags = <<"F", "S">>
            /\ message.labelIds = <<"DRAFT", "STARRED">> => flags = <<"D", "F", "S">>

\* An unread, starred message in the trash was written with the flags "FT".
C18_Witness ==
    /\ pc = "returned"
    /\ message.labelIds = <<"TRASH", "UNREAD", "STARRED">>
    /\ Written.name.flags = <<"F", "T">>


\* C19: every file under cur/ carries the flag S and no file under new/ does:
\* a message is stored under cur/ exactly when it is seen, under new/ exactly
\* when it is unread.
C19_CurIffSeen ==
    \A f \in store :
        /\ f.sub = "cur" => "S" \in Range(f.name.flags)
        /\ f.sub = "new" => "S" \notin Range(f.name.flags)

\* A read message is stored under cur/ and an unread one under new/.
C19_Witness ==
    /\ \E f \in store : f.sub = "cur" /\ f.name.flags = <<"S">>
    /\ \E f \in store : f.sub = "new" /\ f.name.flags = <<>>
    /\ pc = "done"


\* C20: when the process finds no account, an unsupported provider, no valid
\* credentials or a storage root it cannot write to, the run ends as an error
\* before any message is fetched from the remote, and the store and the cursor
\* stay as they were.
C20_SetupFailureAborts ==
    setup # "ok" =>
        /\ hist.fetched = <<>>
        /\ store = {} /\ state_file = AbsentFile


\* The historyId the run under way passes to save.
SavedId == IF mode = "full" THEN highest_history_id ELSE current_history_id

\* C21: the state file is a register: what save wrote is what load returns,
\* in the saving object and in a new one, until the next save or clear; only a
\* save, a clear or a process killed in save changes it; after clear nothing
\* is loaded; and a plain sync() runs incrementally from the loaded historyId
\* exactly when a record is loaded, and runs a full sync otherwise.
C21_CursorRegister ==
    [][/\ hist'.saves > hist.saves =>
             /\ load(state_file').kind = "dict"
             /\ load(state_file').history_id = SavedId
             /\ load(state_file').synced_labels = labels
             /\ state_cache' = load(state_file')
       /\ state_file' # state_file =>
             \/ hist'.saves > hist.saves
             \/ pc = "idle" /\ pc' = "idle" /\ load(state_file') = NoState
             \/ pc' = "crashed"
       /\ pc = "sync" =>
             IF state_file.kind = "json"
             THEN /\ hist'.selected = "incremental"
                  /\ mode' = "incremental"
                  /\ start_history_id' = state_file.history_id
             ELSE /\ hist'.selected = "full"
                  /\ mode' = "full"
      ]_vars

\* A run had stored a message and saved the cursor; the cursor was cleared,
\* and the next plain sync() ran a full sync and saved a cursor again.
C21_Witness ==
    /\ pc = "done"
    /\ hist.cursor0 = AbsentFile
    /\ hist.visible0 # {}
    /\ hist.selected = "full" /\ mode = "full"
    /\ hist.saves = 1
    /\ state_file.kind = "json"


DupFiles(files) == \E id \in MsgIds : Cardinality(Visible(files, id)) >= 2

Counted(r) == r.downloaded + r.skipped + r.errors

\* full_sync: the number of ids listed for the first n labels.
RECURSIVE ListedUpTo(_)
ListedUpTo(n) ==
    IF n <= 0 THEN 0
    ELSE ListedUpTo(n - 1) + Len(list_messages(labels[n], query, max_messages))

\* full_sync: the number of ids listed over all labels.
Listed == ListedUpTo(Len(labels))

\* The ids the run under way is done with: those before the message at idx,
\* and that one too once the loop has left it.
Processed ==
    (IF mode = "full" THEN ListedUpTo(label_idx - 1) ELSE 0)
    + (IF pc \in {"full_msg", "incr_msg", "write_tmp", "rename"} THEN idx - 1 ELSE idx)

\* C24: every id a run is done with has raised exactly one of skipped,
\* downloaded and errors: skipped for an id that was stored, which is not
\* fetched; downloaded for an id fetched and written; errors, with one entry
\* in the error list, for any other.  At the end of the run the three counts
\* add up to the ids listed over all labels (full sync) or to the size of
\* the set of added ids (incremental sync).
C24_CountsPartition ==
    [][/\ (mode' # "none" /\ pc' \notin {"raised", "idle"}) =>
             /\ Counted(result') = Processed'
             /\ result'.errors = Len(result'.error_details)
       /\ (pc' = "done" /\ mode' = "full") =>
             Counted(result') = Listed'
       /\ (pc' = "done" /\ mode' = "incremental") =>
             Counted(result') = Cardinality(new_message_ids')
       /\ pc \in {"full_msg", "incr_msg"} =>
             LET id == IF mode = "full" THEN message_ids[idx] ELSE message_list[idx]
             IN  IF Visible(store, id) # {}
                 THEN /\ result' = [result EXCEPT !.skipped = @ + 1]
                      /\ hist'.fetched = hist.fetched
                 ELSE /\ hist'.fetched = Append(hist.fetched, id)
                      /\ result'.skipped = result.skipped
                      /\ result'.downloaded = result.downloaded
       /\ pc = "rename" =>
             /\ result' = [result EXCEPT !.downloaded = @ + 1]
             /\ Visible(store', message.id) # {}
       /\ (pc = "write_tmp" /\ pc' # "rename") =>
             /\ result'.errors = result.errors + 1
             /\ result'.downloaded = result.downloaded
             /\ result'.skipped = result.skipped
      ]_vars

\* The cursor was stored, list_history added A and B, one of them was stored
\* already: the run ended with downloaded 1, skipped 1, errors 0.
C24_Witness ==
    /\ pc = "done"
    /\ mode = "incremental"
    /\ hist.cursor0.kind = "json"
    /\ new_message_ids = {"A", "B"}
    /\ Cardinality(hist.visible0) = 1
    /\ result.downloaded = 1 /\ result.skipped = 1 /\ result.errors = 0

\* What a full sync that reached the end of labels[n] has reported: for each
\* label in turn, one call per listed id, numbered from 1 to the length of
\* that label's listing.
RECURSIVE ReportedUpTo(_)
ReportedUpTo(n) ==
    IF n <= 0 THEN <<>>
    ELSE LET total == Len(list_messages(labels[n], query, max_messages))
         IN  ReportedUpTo(n - 1) \o [i \in 1..total |-> <<labels[n], i, total>>]

Reported == ReportedUpTo(Len(labels))

ReportedIncremental ==
    [i \in 1..Cardinality(new_message_ids) |->
        <<"incremental", i, Cardinality(new_message_ids)>>]

\* C25: the progress callback is called exactly once for every id the loop
\* takes up, stored, fetched or failed, and by no other step.  A full sync
\* reports the label under way, the position from 1 and the length of that
\* label's listing; an incremental sync reports "incremental", which is no
\* label of the provider, the position from 1 and the size of the set of
\* added ids.
C25_ProgressPerId ==
    [][/\ "incremental" \notin GmailLabels \cup SyncLabels
       /\ pc = "full_msg" =>
             /\ idx \in 1..Len(message_ids)
             /\ hist'.progress =
                   Append(hist.progress, <<labels[label_idx], idx, Len(message_ids)>>)
       /\ pc = "incr_msg" =>
             /\ idx \in 1..Cardinality(new_message_ids)
             /\ hist'.progress =
                   Append(hist.progress,
                          <<"incremental", idx, Cardinality(new_message_ids)>>)
       /\ (pc \notin {"full_msg", "incr_msg", "idle"} /\ pc' # "idle") =>
             hist'.progress = hist.progress
       /\ (mode' # "none" /\ pc' \notin {"raised", "idle"}) =>
             Len(hist'.progress) = Len(hist'.fetched) + result'.skipped
       /\ (pc' = "done" /\ mode' = "full") => hist'.progress = Reported'
       /\ (pc' = "done" /\ mode' = "incremental") =>
             hist'.progress = ReportedIncremental'
      ]_vars

\* A full sync of two labels ended; it skipped an id, failed on one and
\* reported three.
C25_Witness ==
    /\ pc = "done"
    /\ mode = "full"
    /\ Len(labels) = 2
    /\ result.skipped >= 1
    /\ result.errors >= 1
    /\ Len(hist.progress) = 3

\* C26: an incremental sync takes the added ids up in the order in which
\* list_history first reported them, the labels in the caller's order and
\* the ids in the order of each label's response.
C26_FirstSeenOrder ==
    (mode = "incremental" /\ pc \in {"incr_msg", "incr_commit", "done"}) =>
        message_list = hist.first_seen

\* The messages of the requested labels that are not stored.
Missing(files) ==
    {m \in MsgIds : /\ \E i \in 1..Len(labels) : labels[i] \in remote_labels[m]
                    /\ Visible(files, m) = {}}

\* C27: a plain sync in which every fetch and every write worked leaves no
\* message of the requested labels out of the store, whatever cursor the
\* runs before it committed.
C27_RetriedByLaterSync ==
    [][(/\ pc' = "done" /\ pc # "done"
        /\ hist.selected = "incremental" \/ hist.cursor0.kind # "json"
        /\ result'.errors = 0)
       => Missing(store') = {}
      ]_vars

\* C28: runs that follow one another never lower the committed cursor: a
\* save over a stored cursor writes a sequence number that is not below it.
C28_CursorNeverDecreases ==
    [][(state_file.kind = "json" /\ state_file'.kind = "json")
       => int(state_file'.history_id) >= int(state_file.history_id)
      ]_vars

\* A run that sync() sent to incremental_sync although the cursor was
\* committed over other labels than the ones it was called with.
OtherLabels ==
    /\ mode = "incremental"
    /\ hist.cursor0.kind = "json"
    /\ hist.cursor0.synced_labels # labels

\* C29: the labels stored with the cursor are never read.  A plain sync()
\* called with other labels than the stored ones runs incrementally from the
\* stored sequence number, calls list_history for the labels of the call,
\* one after the other, and no list_messages unless the cursor has expired,
\* and commits the cursor with the labels of the call.
C29_StoredLabelsIgnored ==
    [][/\ (/\ pc = "sync"
           /\ get_history_id(state_cache, state_file) # None
           /\ ~args.force_full
           /\ build_query(args.since, args.days) = None
           /\ state_file.synced_labels # args.labels)
          => /\ mode' = "incremental"
             /\ labels' = args.labels
             /\ start_history_id' = state_file.history_id
             /\ pc' = "incr_list" /\ label_idx' = 1
       /\ (pc = "incr_list" /\ OtherLabels)
          => /\ hist'.first_call = "list_history"
             /\ label_idx \in 1..Len(labels)
             /\ labels' = labels
             /\ pc' = "incr_list" => label_idx' = label_idx + 1
             /\ pc' \in {"incr_msg", "incr_commit"} => label_idx = Len(labels)
             /\ pc' \in {"full_list", "full_msg", "full_commit"} => hist'.fallback
       /\ (pc = "incr_commit" /\ pc' = "done" /\ OtherLabels)
          => /\ state_file'.kind = "json"
             /\ state_file'.synced_labels = labels
             /\ state_file'.history_id = current_history_id
             /\ int(current_history_id) >= int(hist.cursor0.history_id)
      ]_vars

\* The cursor was committed over the INBOX; a plain sync of INBOX and SENT
\* ran incrementally, fetched a message and committed the cursor over both.
C29_Witness ==
    /\ pc = "done"
    /\ mode = "incremental"
    /\ ~hist.fallback
    /\ hist.cursor0.kind = "json"
    /\ hist.cursor0.synced_labels = <<"INBOX">>
    /\ labels = <<"INBOX", "SENT">>
    /\ hist.fetched # <<>>
    /\ state_file.synced_labels = <<"INBOX", "SENT">>

\* The committed cursor has expired, every message of the INBOX is stored
\* and the run under way, if any, has fetched none.
ExpiredAndComplete ==
    /\ state_file.kind = "json"
    /\ state_file.history_id \in ExpiredIds
    /\ \A m \in MsgIds : "INBOX" \in remote_labels[m] => Visible(store, m) # {}
    /\ highest_history_id = None

\* C30: a full sync entered on CursorExpired that fetches no message ends
\* with the expired cursor still committed.  From then on every plain sync()
\* selects incremental from that cursor, gets the 404 at the first
\* list_history and falls back to full_sync, which again saves nothing: no
\* incremental run comes to its end.
C30_ExpiredCursorStays ==
    [][/\ (pc = "full_commit" /\ pc' = "done" /\ hist.fallback /\ hist.fetched = <<>>)
          => /\ state_file' = hist.cursor0
             /\ hist'.saves = 0
       /\ ExpiredAndComplete =>
             /\ ExpiredAndComplete'
             /\ state_file' = state_file
             /\ ~(pc' = "done" /\ mode' = "incremental")
             /\ (pc = "sync" /\ ~args.force_full) =>
                   /\ mode' = "incremental"
                   /\ start_history_id' = state_file.history_id
                   /\ pc' = "incr_list"
             /\ pc = "incr_list" =>
                   \/ hist'.fallback /\ mode' = "full" /\ pc' = "full_list"
                   \/ pc' = "raised" /\ raised' = HttpError(500)
             /\ pc = "full_msg" =>
                   /\ hist'.fetched = hist.fetched
                   /\ result'.skipped = result.skipped + 1
      ]_vars

\* A plain sync found the cursor expired, fell back to full_sync, skipped
\* both messages and ended with the cursor it started from.
C30_Witness ==
    /\ pc = "done"
    /\ hist.selected = "incremental"
    /\ hist.fallback
    /\ hist.cursor0.kind = "json"
    /\ hist.cursor0.history_id \in ExpiredIds
    /\ result.skipped = 2 /\ result.downloaded = 0 /\ result.errors = 0
    /\ state_file = hist.cursor0

====
